---- MODULE Spec2Model ----
(***************************************************************************)
(* ola_video_convert: OLA showfile -> video converter.                     *)
(*                                                                         *)
(* The model follows io.hpp (trim, split_char, ParseChans, read_frame,     *)
(* write_line, write_lines), ola_video_convert.cpp (prog, main) and        *)
(* media.cpp (DMXVideoEncoder).                                            *)
(*                                                                         *)
(* A line of the showfile is a sequence of one-character strings.  The     *)
(* input stream is handed out line by line by the environment: every       *)
(* std::getline either extracts a line chosen from the line set of the     *)
(* run, or meets the end of the file.  `show` records what was extracted.  *)
(* File reads never fail for a reason other than end of file, and the      *)
(* libav calls of the encoder succeed.                                     *)
(***************************************************************************)
EXTENDS Integers, Sequences, FiniteSets, TLC

VARIABLES
  env,              \* which line set the input stream is drawn from
  num_universe,     \* prog: --universes
  last_frame_time,  \* prog: --last-duration
  show,             \* lines extracted from the stream so far, in order
  eofbit,           \* std::ios eofbit of `show`
  failbit,          \* std::ios failbit of `show`
  d_frame,          \* prog: io::OLAFrame d_frame
  readdata,         \* read_frame: bool readdata
  universe_states,  \* prog: io::UniverseStates universe_states
  encoder,          \* DMXVideoEncoder: closed, next_pts
  sink,             \* what the encoder handed to libav, in order
  pc,               \* position of the program
  err,              \* exception in flight / caught ("none" if none)
  exit_code,        \* process exit status (-1 while running)
  stderr_msg,       \* what main's catch block wrote to std::cerr
  records,          \* log: classification of every extracted line
  calls,            \* log: outcome of every finished read_frame call
  applied,          \* log: frames for which the loop body was entered
  chans_s,          \* ParseChans alone: the argument s
  chans_d0,         \* ParseChans alone: the array d before the call
  chans_d,          \* ParseChans alone: the array d
  chans_i,          \* ParseChans alone: the position i
  chans_c,          \* ParseChans alone: the channel counter c
  chans_err,        \* ParseChans alone: what the call threw ("none" if nothing)
  sts,              \* write_lines alone: the argument states
  linesize,         \* write_lines alone: the argument stride
  fbuf0,            \* write_lines alone: the buffer before the call
  fbuf              \* write_lines alone: the buffer l points to

\* the state of the runs that call one function alone
unitvars ==
  <<chans_s, chans_d0, chans_d, chans_i, chans_c, chans_err, sts, linesize,
    fbuf0, fbuf>>

\* the state of prog
progvars == <<env, num_universe, last_frame_time, show, eofbit, failbit,
              d_frame, readdata, universe_states, encoder, sink, err,
              exit_code, stderr_msg, records, calls, applied>>

vars == <<progvars, pc, unitvars>>

----------------------------------------------------------------------------
(* Bounds of the model. *)

MaxLines == 4          \* lines of a showfile in the conversion runs
MaxUniverses == 2      \* largest --universes value
MaxRecLines == 2       \* lines of a showfile in the reader runs
MaxLineLen == 3        \* length of the generated lines in the reader runs
MaxChanLen == 4        \* length of the generated channel lists
MaxRows == 2           \* entries of the tables that are packed alone
MaxErrLines == 3       \* lines of a showfile in the runs on faulty showfiles
MaxSkipLines == 4      \* lines of a showfile in the runs with skipped lines
MaxTermLines == 3      \* lines of a showfile in the runs to termination

(* Program constants. *)

NumChannels == 512     \* std::array<std::uint8_t, 512>
frame_width == 514     \* 2 + 512
Uint8Max == 255        \* std::numeric_limits<std::uint8_t>::max()

----------------------------------------------------------------------------
(* Characters and strings. *)

DigitVal ==
  [c \in {"0", "1", "2", "3", "4", "5", "6", "7", "8", "9"} |->
     CASE c = "0" -> 0 [] c = "1" -> 1 [] c = "2" -> 2 [] c = "3" -> 3
       [] c = "4" -> 4 [] c = "5" -> 5 [] c = "6" -> 6 [] c = "7" -> 7
       [] c = "8" -> 8 [] c = "9" -> 9]

IsDigit(c) == c \in DOMAIN DigitVal

\* std::isspace in the classic locale ("\n" never occurs inside a line).
IsSpace(c) == c \in {" ", "\t", "\r"}

show_header == <<"O", "L", "A", " ", "S", "h", "o", "w">>

\* A std::string_view into buf: offset and length.
View(buf, v) == SubSeq(buf, v.off + 1, v.off + v.len)

\* Number of leading characters of s (from index i, 1-based) that satisfy
\* the digit test.
RECURSIVE DigitRun(_, _)
DigitRun(s, i) ==
  IF i > Len(s) \/ ~IsDigit(s[i]) THEN 0 ELSE 1 + DigitRun(s, i + 1)

RECURSIVE SpaceRunFwd(_, _)
SpaceRunFwd(s, i) ==
  IF i > Len(s) \/ ~IsSpace(s[i]) THEN 0 ELSE 1 + SpaceRunFwd(s, i + 1)

RECURSIVE SpaceRunBwd(_, _)
SpaceRunBwd(s, i) ==
  IF i < 1 \/ ~IsSpace(s[i]) THEN 0 ELSE 1 + SpaceRunBwd(s, i - 1)

\* trim: the view of buf without leading and trailing whitespace.
trim(buf) ==
  LET size   == Len(buf)
      nbegin == SpaceRunFwd(buf, 1)
      nend   == size - SpaceRunBwd(buf, size)
      \* substr(pos, count) clamps count to size - pos; a negative distance
      \* converts to a huge count
      count  == IF nend >= nbegin THEN nend - nbegin ELSE size - nbegin
  IN  [off |-> nbegin, len |-> count]

\* s.find(c, from): 0-based position in the view, or -1 (npos).
RECURSIVE Find(_, _, _)
Find(s, c, from) ==
  IF from >= Len(s) THEN -1
  ELSE IF s[from + 1] = c THEN from ELSE Find(s, c, from + 1)

RECURSIVE FindFirstNotOf(_, _, _)
FindFirstNotOf(s, c, from) ==
  IF from >= Len(s) THEN -1
  ELSE IF s[from + 1] # c THEN from ELSE FindFirstNotOf(s, c, from + 1)

\* std::string_view{const char *}: the characters up to the terminating NUL
\* of the std::string the pointer points into, i.e. up to the end of buf.
CStringAt(buf, off) == SubSeq(buf, off + 1, Len(buf))

\* split_char(s, c) for the view v of buf.
split_char(buf, v, c) ==
  LET s    == View(buf, v)
      bpos == Find(s, c, 0)
  IN  IF bpos = -1
      THEN [first |-> s, second |-> CStringAt(buf, v.off + v.len)]
      ELSE LET n  == FindFirstNotOf(s, c, bpos)
               bp == IF n = -1 THEN Len(s) ELSE n
           IN  [first  |-> SubSeq(s, 1, bp),
                second |-> CStringAt(buf, v.off + bp)]

----------------------------------------------------------------------------
(* std::from_chars for std::uint32_t, base 10. *)

Uint32MaxDigits == <<4, 2, 9, 4, 9, 6, 7, 2, 9, 5>>

RECURSIVE StripZeros(_)
StripZeros(ds) ==
  IF Len(ds) > 1 /\ ds[1] = 0 THEN StripZeros(Tail(ds)) ELSE ds

RECURSIVE LexLeq(_, _)
LexLeq(a, b) ==
  IF Len(a) = 0 THEN TRUE
  ELSE IF a[1] # b[1] THEN a[1] < b[1]
  ELSE LexLeq(Tail(a), Tail(b))

\* The digit string denotes a value of at most 2^32 - 1.
FitsUint32(ds) ==
  LET sig == StripZeros(ds)
  IN  Len(sig) < 10 \/ (Len(sig) = 10 /\ LexLeq(sig, Uint32MaxDigits))

RECURSIVE DecValue(_)
DecValue(ds) ==
  IF Len(ds) = 0 THEN 0
  ELSE 10 * DecValue(SubSeq(ds, 1, Len(ds) - 1)) + ds[Len(ds)]

from_chars(tok) ==
  LET n  == DigitRun(tok, 1)
      ds == [i \in 1..n |-> DigitVal[tok[i]]]
  IN  IF n = 0 THEN [ec |-> "invalid_argument", val |-> 0, ptr |-> 0]
      ELSE IF ~FitsUint32(ds)
      THEN [ec |-> "result_out_of_range", val |-> 0, ptr |-> n]
      ELSE [ec |-> "ok", val |-> DecValue(ds), ptr |-> n]

----------------------------------------------------------------------------
(* ParseChans. *)

ZeroData == [i \in 1..NumChannels |-> 0]

mult == <<100, 10, 1>>

\* variant: a comma is skipped wherever it stands
SkipComma_Anywhere(s, i) == s[i + 1] = ","

\* i && s[i] == ','
SkipComma(s, i) == (i # 0) /\ s[i + 1] = ","

\* variant: at most two digits are read into one value
RECURSIVE CountDigits_Two(_, _, _)
CountDigits_Two(s, i, digits) ==
  IF digits >= 2 THEN digits
  ELSE IF (i + digits) >= Len(s) THEN digits
  ELSE IF ~IsDigit(s[i + digits + 1]) THEN digits
  ELSE CountDigits_Two(s, i, digits + 1)

\* the inner loop: number of digits at position i (0-based), at most 3
RECURSIVE CountDigits(_, _, _)
CountDigits(s, i, digits) ==
  IF digits >= 3 THEN digits
  ELSE IF (i + digits) >= Len(s) THEN digits
  ELSE IF ~IsDigit(s[i + digits + 1]) THEN digits
  ELSE CountDigits(s, i, digits + 1)

RECURSIVE ChanValue(_, _, _, _)
ChanValue(s, i, digits, digit) ==
  IF digit >= digits THEN 0
  ELSE DigitVal[s[i + digit + 1]] * mult[(3 - digits) + digit + 1]
       + ChanValue(s, i, digits, digit + 1)

\* variant: the range check is missing
Overflow_Never(v) == FALSE

\* v > std::numeric_limits<UniverseData::value_type>::max()
Overflow(v) == v > Uint8Max

\* variant: the last element of the array is out of range too
OutOfRange_OffByOne(d, c) == c >= Len(d) - 1

\* d.at(c) throws std::out_of_range
OutOfRange(d, c) == c >= Len(d)

\* d.at(c) = v: the int is converted to std::uint8_t
StoreAt(d, c, v) == [d EXCEPT ![c + 1] = v % (Uint8Max + 1)]

\* one round of the outer loop; i is the 0-based position, c the number of
\* channels written so far, d the array.  stop: the function is left, by
\* return or by the exception err
ParseRound(s, i, c, d) ==
  LET comma  == SkipComma(s, i)
      i1     == IF comma THEN i + 1 ELSE i
      digits == CountDigits(s, i1, 0)
      v      == ChanValue(s, i1, digits, 0)
      leave(e) == [stop |-> TRUE, err |-> e, i |-> i1, c |-> c, d |-> d]
  IN  IF comma /\ i1 = Len(s) THEN leave("none")
      ELSE IF digits = 0 THEN leave("MalformedChannelList")
      ELSE IF Overflow(v) THEN leave("ChannelValueOverflow")
      ELSE IF OutOfRange(d, c) THEN leave("TooManyChannels")
      ELSE [stop |-> FALSE, err |-> "none", i |-> i1 + digits, c |-> c + 1,
            d |-> StoreAt(d, c, v)]

\* one pass through the head of the loop: i < s.size() fails and the
\* function returns, or a round is made; nothing happens once it is left
LoopPass(s, st) ==
  IF st.stop THEN st
  ELSE IF ~(st.i < Len(s)) THEN [st EXCEPT !.stop = TRUE]
  ELSE ParseRound(s, st.i, st.c, st.d)

\* n passes, one after the other
RECURSIVE Passes(_, _, _)
Passes(s, st, n) ==
  IF n = 0 THEN st
  ELSE IF n = 1 THEN LoopPass(s, st)
  ELSE LET half == Passes(s, st, n \div 2)
       IN  IF half.stop THEN half ELSE Passes(s, half, n - (n \div 2))

\* for (std::size_t i{}; i < s.size();): every round moves i forward, so
\* the loop is left within s.size() + 1 passes
ParseLoop(s, i, c, d) ==
  LET r == Passes(s, [stop |-> FALSE, err |-> "none", i |-> i, c |-> c,
                      d |-> d], Len(s) + 1)
  IN  [err |-> r.err, data |-> r.d, count |-> r.c]

\* variant: the array keeps its old content
fill_Keep(d, v) == d

\* d.fill(v)
fill(d, v) == [i \in DOMAIN d |-> v]

ParseChans(s, d) == ParseLoop(s, 0, 0, fill(d, 0))

----------------------------------------------------------------------------
(* Input: the lines the environment may put into the showfile. *)

\* conversion runs
ShowLines ==
  { <<"0", " ", "1", ",", "2">>,       \* universe 0
    <<"0", " ", "9">>,                 \* universe 0, other values
    <<"1", " ", "3">>,                 \* universe 1
    <<"0">>,                           \* wait 0
    <<"5">>,                           \* wait 5
    show_header,
    <<"x">>,                           \* not a number
    <<"0", " ", "2", "5", "6">> }      \* channel value too large

\* reader runs: every string over a small alphabet, and some longer lines
RecAlphabet == {"7", " ", "\t", "a"}

RECURSIVE Strings(_)
Strings(n) ==
  IF n = 0 THEN {<<>>}
  ELSE LET S == Strings(n - 1)
       IN  S \cup {Append(s, c) : s \in S, c \in RecAlphabet}

SpecialLines ==
  { <<"-", "1">>,
    <<"5", "a", "b", "c">>,
    <<"5", "a", "b", "c", " ", "1">>,
    <<"4", "2", "9", "4", "9", "6", "7", "2", "9", "6">>,
    <<"9", "9", "9", "9", "9", "9", "9", "9", "9", "9", "9">>,
    <<"0", "0", "7", " ", "1", "2", "3", "4">>,
    <<"7", " ", " ", "1", ",", "2", ",">>,
    <<"7", " ", "1", ",", ",", "2">>,
    <<"7", " ", "1", " ">>,
    <<"7", " ", "\t", "1">>,
    <<"3", "\r">>,
    <<" ">> \o show_header \o <<"\t">>,
    show_header \o <<"s">> }

RecLines == Strings(MaxLineLen) \cup SpecialLines

\* n copies of the string u
Rep(u, n) == [k \in 1..(n * Len(u)) |-> u[((k - 1) % Len(u)) + 1]]

\* conversion runs on faulty showfiles: a line for every failure of the
\* reader, and what it takes to come to the failures of the table
ErrLines ==
  { <<"0", " ", "1">>,
    <<"1", " ", "1">>,
    <<"5">>,
    <<"0">>,
    show_header,
    <<"x">>,                                          \* not a number
    <<"0", " ", "1", ",", ",", "2">>,                  \* two commas
    <<"0", " ", "2", "5", "6">>,                       \* value too large
    <<"0", " ">> \o Rep(<<"7", ",">>, NumChannels + 1) }  \* 513 values

\* reader runs on streams with blank lines and header lines in them
SkipLines ==
  { <<"0", " ", "1", ",", "2">>,
    <<"5">>,
    <<>>,
    <<" ", "\t">>,
    show_header,
    <<" ">> \o show_header \o <<"\t">>,
    <<"x">>,                           \* not a number
    <<"0", " ", "x">> }                \* not a channel list

\* conversion runs to termination: lines for every way the loop can end
TermLines ==
  { <<"0", " ", "1">>,
    <<"1", " ", "1">>,
    <<"5">>,
    <<"0">>,
    show_header,
    <<"x">>,                           \* not a number
    <<"0", " ", "x">> }                \* not a channel list

Lines(e) ==
  CASE e = "rec" -> RecLines
    [] e = "err" -> ErrLines
    [] e = "skip" -> SkipLines
    [] e = "term" -> TermLines
    [] OTHER     -> ShowLines

LineLimit(e) ==
  CASE e = "rec" -> MaxRecLines
    [] e = "err" -> MaxErrLines
    [] e = "skip" -> MaxSkipLines
    [] e = "term" -> MaxTermLines
    [] OTHER     -> MaxLines

\* --last-duration values tried (cxxopts::value<int>, default 1)
LastDurations == {0, 1}

\* ParseChans alone: every string over a small alphabet, some longer
\* strings, and strings around the 512 channels of a row
ChanAlphabet == {"2", "5", "6", ",", "x"}

RECURSIVE ChanStrings(_)
ChanStrings(n) ==
  IF n = 0 THEN {<<>>}
  ELSE LET S == ChanStrings(n - 1)
       IN  S \cup {Append(s, c) : s \in S, c \in ChanAlphabet}

SpecialChans ==
  { <<"1", "2", "3", "4">>,
    <<"1", "2", "3", "4", "5", "6", "7">>,
    <<"1", ",", ",", "2">>,
    <<"0", "0", "7", ",", "0", "0", ",", "0", ",", "2", "5", "5", ",">>,
    <<"1", "0", ",", "2", "0", ",", "3", "0">>,
    <<"9", "9", "9">>,
    <<"1", " ", "2">>,
    <<"2", "5", "5", "2", "5", "6">>,
    <<"1", ",", "2", ",", ",">> }

FullChans ==
  LET full  == Rep(<<"7", ",">>, NumChannels - 1) \o <<"9">>
      dense == Rep(<<"2", "5", "5">>, NumChannels)
  IN  { full,                          \* 512 values
        full \o <<",">>,               \* 512 values and a comma
        full \o <<",", "3">>,          \* 513 values
        full \o <<",", "3", ",">>,
        full \o <<",", "2", "5", "6">>,
        full \o <<",", ",">>,
        full \o <<"x">>,
        dense,                         \* 512 values without commas
        dense \o <<"4">>,
        Rep(<<"7", ",">>, NumChannels + 1) \o <<"x">> }

ChanTexts == ChanStrings(MaxChanLen) \cup SpecialChans \cup FullChans

\* what the array holds before the call
OldData == [i \in 1..NumChannels |-> 1 + (i % 5)]

ChanArrays == {ZeroData, OldData}

\* write_lines alone: tables of a few universes, with universe numbers
\* below and above 2^16, buffers with and without padding after a row
UniverseIds == {0, 2, 258, 65536, 65538}

RampData == [i \in 1..NumChannels |-> (i - 1) % (Uint8Max + 1)]

Rows == {ZeroData, OldData, RampData}

Tables ==
  UNION { [K -> Rows] : K \in {S \in SUBSET UniverseIds :
                                 Cardinality(S) <= MaxRows} }

Strides == {frame_width, frame_width + 2}

\* what the bytes of the buffer hold before the call
OldBytes == {0, 170}

----------------------------------------------------------------------------
(* State after construction. *)

\* OLAFrame::clear
clear(f) == [duration_ms |-> 0, universe |-> 0, data |-> fill(f.data, 0)]

EmptyStates == [u \in {} |-> ZeroData]

InitCommon ==
  /\ show = <<>>
  /\ eofbit = FALSE
  /\ failbit = FALSE
  /\ d_frame = clear([duration_ms |-> 0, universe |-> 0, data |-> ZeroData])
  /\ readdata = FALSE
  /\ universe_states = EmptyStates
  /\ encoder = [closed |-> FALSE, next_pts |-> 0]
  /\ sink = <<>>
  /\ err = "none"
  /\ exit_code = -1
  /\ stderr_msg = <<>>
  /\ records = <<>>
  /\ calls = <<>>
  /\ applied = <<>>

\* no function is called alone
NoChans ==
  /\ chans_s = <<>>
  /\ chans_d0 = ZeroData
  /\ chans_d = ZeroData
  /\ chans_i = 0
  /\ chans_c = 0
  /\ chans_err = "none"

NoLines ==
  /\ sts = EmptyStates
  /\ linesize = frame_width
  /\ fbuf0 = <<>>
  /\ fbuf = <<>>

Init ==
  /\ env = "show"
  /\ num_universe \in 1..MaxUniverses
  /\ last_frame_time \in LastDurations
  /\ InitCommon
  /\ pc = "loop"
  /\ NoChans
  /\ NoLines

InitRec ==
  /\ env = "rec"
  /\ num_universe = 1
  /\ last_frame_time = 1
  /\ InitCommon
  /\ pc = "loop"
  /\ NoChans
  /\ NoLines

----------------------------------------------------------------------------
(* Exceptions.  A throw leaves prog; main's catch block reports it. *)

\* e.what(), character by character: the string literal the exception was
\* made from.  The text of the std::out_of_range of array::at is the
\* library's; it begins with the name of the function and goes on with the
\* index and the size of the array.
what(e) ==
  CASE e = "MalformedInteger" ->
         <<"b", "a", "d", " ", "f", "r", "a", "m", "e", " ", "d", "u", "r",
           "a", "t", "i", "o", "n", " ", "/", " ", "u", "n", "i", "v", "e",
           "r", "s", "e", " ", "n", "u", "m", "b", "e", "r">>
    [] e = "MalformedChannelList" ->
         <<"c", "h", "a", "n", "n", "e", "l", " ", "u", "n", "d", "e", "f",
           "i", "n", "e", "d", " ", "/", " ", "h", "a", "s", " ", "w", "r",
           "o", "n", "g", " ", "f", "o", "r", "m", "a", "t">>
    [] e = "ChannelValueOverflow" ->
         <<"c", "h", "a", "n", "n", "e", "l", " ", "v", "a", "l", "u", "e",
           " ", "o", "v", "e", "r", "f", "l", "o", "w">>
    [] e = "TooManyChannels" ->
         <<"a", "r", "r", "a", "y", ":", ":", "a", "t">>
    [] e = "NoDataBeforeDuration" ->
         <<"n", "o", " ", "f", "r", "a", "m", "e", " ", "b", "e", "f", "o",
           "r", "e", " ", "f", "r", "a", "m", "e", " ", "t", "i", "m", "e">>
    [] e = "TooManyUniverses" ->
         <<"t", "o", "o", " ", "m", "a", "n", "y", " ", "u", "n", "i", "v",
           "e", "r", "s", "e", "s", " ", "i", "n", " ", "s", "h", "o", "w",
           "f", "i", "l", "e">>
    [] e = "IncompleteUniverseSet" ->
         <<"u", "n", "i", "v", "e", "r", "s", "e", " ", "s", "t", "a", "t",
           "e", "(", "s", ")", " ", "u", "n", "d", "e", "f", "i", "n", "e",
           "d", " ", "a", "t", " ", "e", "n", "c", "o", "d", "e">>
    [] e = "ReadError" ->
         <<"r", "e", "a", "d", "i", "n", "g", " ", "s", "h", "o", "w", "f",
           "i", "l", "e">>
    [] e = "Closed" ->
         <<"c", "l", "o", "s", "e", "d">>

\* std::cerr << "Exiting with error: " << e.what() << '\n'
Report(e) ==
  <<"E", "x", "i", "t", "i", "n", "g", " ", "w", "i", "t", "h", " ", "e",
    "r", "r", "o", "r", ":", " ">> \o what(e) \o <<"\n">>

\* variant: the failure is noted and the conversion goes on
Throw_Continue(e) == pc' = "loop" /\ err' = e

Throw(e) == pc' = "unwind" /\ err' = e

----------------------------------------------------------------------------
(* std::getline(s, buf). *)

\* a line is extracted; at_eof: it was ended by the end of the file instead
\* of a newline
GetLine(line, at_eof) ==
  /\ ~eofbit /\ ~failbit
  /\ Len(show) < LineLimit(env)
  /\ line \in Lines(env)
  /\ at_eof => Len(line) > 0
  /\ show' = Append(show, line)
  /\ eofbit' = at_eof
  /\ failbit' = failbit

\* nothing is extracted: the stream was not good, or the file has ended
GetLineFails ==
  /\ show' = show
  /\ eofbit' = TRUE
  /\ failbit' = TRUE

----------------------------------------------------------------------------
(* read_frame. *)

\* what read_frame makes of one extracted line
Segs(buf) == split_char(buf, trim(buf), " ")
Rslt(buf) == from_chars(Segs(buf).first)

\* variant: the header is skipped only when it is the whole line
Skipped_Untrimmed(buf) ==
  LET bufv == View(buf, trim(buf))
  IN  (buf = show_header) \/ Len(bufv) = 0

\* (bufv == show_header) || !bufv.size()
Skipped(buf) ==
  LET bufv == View(buf, trim(buf))
  IN  (bufv = show_header) \/ Len(bufv) = 0

\* rslt.ec != std::errc{}
BadNumber(buf) == Rslt(buf).ec # "ok"

\* variant: the test for an empty second segment is inverted
IsDurationLine_Inverted(buf) == Len(Segs(buf).second) # 0

\* !segs.second.size()
IsDurationLine(buf) == Len(Segs(buf).second) = 0

Log(kind, val, rest, at_eof) ==
  records' = Append(records, [kind |-> kind, call |-> Len(calls) + 1,
                              val |-> val, rest |-> rest, eol |-> ~at_eof])

\* the call ends: by break (e = "none") or by an exception
Return(f, good, e) ==
  calls' = Append(calls, [good |-> good, frame |-> f, err |-> e])

\* variant: readdata keeps its value from the previous call
CallReadFrame_KeepFlag ==
  /\ pc = "loop"
  /\ d_frame' = clear(d_frame)
  /\ pc' = "read"
  /\ UNCHANGED unitvars
  /\ UNCHANGED <<env, num_universe, last_frame_time, show, eofbit, failbit,
                 readdata, universe_states, encoder, sink, err, exit_code,
                 stderr_msg, records, calls, applied>>

\* entry of read_frame: readdata{false}; f.clear()
CallReadFrame ==
  /\ pc = "loop"
  /\ readdata' = FALSE
  /\ d_frame' = clear(d_frame)
  /\ pc' = "read"
  /\ UNCHANGED unitvars
  /\ UNCHANGED <<env, num_universe, last_frame_time, show, eofbit, failbit,
                 universe_states, encoder, sink, err, exit_code, stderr_msg,
                 records, calls, applied>>

\* variant: the end of the stream never sets the sentinel duration
RF_Eof_NoSentinel ==
  /\ pc = "read"
  /\ GetLineFails
  /\ Return(d_frame, ~failbit', "none")
  /\ pc' = "cond"
  /\ UNCHANGED unitvars
  /\ UNCHANGED <<env, num_universe, last_frame_time, d_frame, readdata,
                 universe_states, encoder, sink, err, exit_code, stderr_msg,
                 records, applied>>

\* variant: the break is missing, the loop of read_frame goes on after a
\* failed getline
RF_Eof_NoBreak ==
  /\ pc = "read"
  /\ GetLineFails
  /\ d_frame' = IF eofbit' /\ readdata
                THEN [d_frame EXCEPT !.duration_ms = -1] ELSE d_frame
  /\ pc' = "read"
  /\ UNCHANGED unitvars
  /\ UNCHANGED <<env, num_universe, last_frame_time, readdata,
                 universe_states, encoder, sink, err, exit_code, stderr_msg,
                 records, calls, applied>>

\* !std::getline(s, buf): if (s.eof() && readdata) f.duration_ms = -1; break
RF_Eof ==
  /\ pc = "read"
  /\ GetLineFails
  /\ d_frame' = IF eofbit' /\ readdata
                THEN [d_frame EXCEPT !.duration_ms = -1] ELSE d_frame
  /\ Return(d_frame', ~failbit', "none")
  /\ pc' = "cond"
  /\ UNCHANGED unitvars
  /\ UNCHANGED <<env, num_universe, last_frame_time, readdata,
                 universe_states, encoder, sink, err, exit_code, stderr_msg,
                 records, applied>>

\* header or blank line: continue
RF_Skip ==
  /\ pc = "read"
  /\ \E line \in Lines(env), at_eof \in BOOLEAN :
       /\ GetLine(line, at_eof)
       /\ Skipped(line)
       /\ Log(IF Len(View(line, trim(line))) = 0 THEN "Blank" ELSE "Header",
              0, <<>>, at_eof)
  /\ UNCHANGED unitvars
  /\ UNCHANGED <<env, num_universe, last_frame_time, d_frame, readdata,
                 universe_states, encoder, sink, pc, err, exit_code,
                 stderr_msg, calls, applied>>

\* throw "bad frame duration / universe number"
RF_BadNumber ==
  /\ pc = "read"
  /\ \E line \in Lines(env), at_eof \in BOOLEAN :
       /\ GetLine(line, at_eof)
       /\ ~Skipped(line)
       /\ BadNumber(line)
       /\ Log("MalformedInteger", 0, <<>>, at_eof)
  /\ Return(d_frame, TRUE, "MalformedInteger")
  /\ Throw("MalformedInteger")
  /\ UNCHANGED unitvars
  /\ UNCHANGED <<env, num_universe, last_frame_time, d_frame, readdata,
                 universe_states, encoder, sink, exit_code, stderr_msg,
                 applied>>

\* throw "no frame before frame time"
RF_NoData ==
  /\ pc = "read"
  /\ \E line \in Lines(env), at_eof \in BOOLEAN :
       /\ GetLine(line, at_eof)
       /\ ~Skipped(line)
       /\ ~BadNumber(line)
       /\ IsDurationLine(line)
       /\ ~readdata
       /\ Log("NoDataBeforeDuration", Rslt(line).val, <<>>, at_eof)
  /\ Return(d_frame, TRUE, "NoDataBeforeDuration")
  /\ Throw("NoDataBeforeDuration")
  /\ UNCHANGED unitvars
  /\ UNCHANGED <<env, num_universe, last_frame_time, d_frame, readdata,
                 universe_states, encoder, sink, exit_code, stderr_msg,
                 applied>>

\* f.duration_ms = val; break
RF_Duration ==
  /\ pc = "read"
  /\ \E line \in Lines(env), at_eof \in BOOLEAN :
       /\ GetLine(line, at_eof)
       /\ ~Skipped(line)
       /\ ~BadNumber(line)
       /\ IsDurationLine(line)
       /\ readdata
       /\ d_frame' = [d_frame EXCEPT !.duration_ms = Rslt(line).val]
       /\ Log("Duration", Rslt(line).val, <<>>, at_eof)
  /\ Return(d_frame', ~failbit', "none")
  /\ pc' = "cond"
  /\ UNCHANGED unitvars
  /\ UNCHANGED <<env, num_universe, last_frame_time, readdata,
                 universe_states, encoder, sink, err, exit_code, stderr_msg,
                 applied>>

\* variant: once a universe-data line has been read, further ones of the
\* same call are dropped
RF_Data_FirstWins ==
  /\ pc = "read"
  /\ \E line \in Lines(env), at_eof \in BOOLEAN :
       /\ GetLine(line, at_eof)
       /\ ~Skipped(line)
       /\ ~BadNumber(line)
       /\ ~IsDurationLine(line)
       /\ LET r == ParseChans(Segs(line).second, d_frame.data)
          IN  /\ r.err = "none"
              /\ d_frame' = IF readdata THEN d_frame
                            ELSE [d_frame EXCEPT !.universe = Rslt(line).val,
                                                 !.data = r.data]
              /\ Log("UniverseData", Rslt(line).val, Segs(line).second,
                     at_eof)
  /\ readdata' = TRUE
  /\ UNCHANGED unitvars
  /\ UNCHANGED <<env, num_universe, last_frame_time, universe_states,
                 encoder, sink, pc, err, exit_code, stderr_msg, calls,
                 applied>>

\* f.universe = val; ParseChans(segs.second, f.data); readdata = true
RF_Data ==
  /\ pc = "read"
  /\ \E line \in Lines(env), at_eof \in BOOLEAN :
       /\ GetLine(line, at_eof)
       /\ ~Skipped(line)
       /\ ~BadNumber(line)
       /\ ~IsDurationLine(line)
       /\ LET r == ParseChans(Segs(line).second, d_frame.data)
          IN  /\ r.err = "none"
              /\ d_frame' = [d_frame EXCEPT !.universe = Rslt(line).val,
                                            !.data = r.data]
              /\ Log("UniverseData", Rslt(line).val, Segs(line).second,
                     at_eof)
  /\ readdata' = TRUE
  /\ UNCHANGED unitvars
  /\ UNCHANGED <<env, num_universe, last_frame_time, universe_states,
                 encoder, sink, pc, err, exit_code, stderr_msg, calls,
                 applied>>

\* ParseChans throws
RF_BadChans ==
  /\ pc = "read"
  /\ \E line \in Lines(env), at_eof \in BOOLEAN :
       /\ GetLine(line, at_eof)
       /\ ~Skipped(line)
       /\ ~BadNumber(line)
       /\ ~IsDurationLine(line)
       /\ LET r == ParseChans(Segs(line).second, d_frame.data)
          IN  /\ r.err # "none"
              /\ d_frame' = [d_frame EXCEPT !.universe = Rslt(line).val,
                                            !.data = r.data]
              /\ Log(r.err, Rslt(line).val, Segs(line).second, at_eof)
              /\ Return(d_frame', TRUE, r.err)
              /\ Throw(r.err)
  /\ UNCHANGED unitvars
  /\ UNCHANGED <<env, num_universe, last_frame_time, readdata,
                 universe_states, encoder, sink, exit_code, stderr_msg,
                 applied>>

ReadFrameStep ==
  \/ RF_Eof \/ RF_Skip \/ RF_BadNumber \/ RF_NoData \/ RF_Duration
  \/ RF_Data \/ RF_BadChans

----------------------------------------------------------------------------
(* write_line, write_lines. *)

\* the buffer l with bytes written from offset pos on
Store(l, pos, bytes) ==
  [b \in 1..Len(l) |->
     IF b > pos /\ b <= pos + Len(bytes) THEN bytes[b - pos] ELSE l[b]]

\* variant: the universe number is written high byte first
write_line_BigEndian(l, pos, universe, data) ==
  Store(l, pos, <<(universe \div 256) % 256, universe % 256>> \o data)

\* one row at offset pos of the buffer: the universe number in two bytes,
\* l[0] = universe & 0xff, l[1] = (universe & 0xff00) >> 8, then the data
write_line(l, pos, universe, data) ==
  Store(l, pos, <<universe % 256, (universe \div 256) % 256>> \o data)

\* variant: the keys in descending order
RECURSIVE SortedKeys_Descending(_)
SortedKeys_Descending(K) ==
  IF K = {} THEN <<>>
  ELSE LET m == CHOOSE x \in K : \A y \in K : x >= y
       IN  <<m>> \o SortedKeys_Descending(K \ {m})

\* the keys of the std::map in ascending order
RECURSIVE SortedKeys(_)
SortedKeys(K) ==
  IF K = {} THEN <<>>
  ELSE LET m == CHOOSE x \in K : \A y \in K : x <= y
       IN  <<m>> \o SortedKeys(K \ {m})

\* for (const auto &st : states) { write_line(pos, ...); pos += stride; }
RECURSIVE LinesLoop(_, _, _, _, _)
LinesLoop(l, pos, stride, states, keys) ==
  IF Len(keys) = 0 THEN l
  ELSE LinesLoop(write_line(l, pos, keys[1], states[keys[1]]), pos + stride,
                 stride, states, Tail(keys))

\* the buffer after write_lines(l, stride, states); the buffer has room for
\* the rows of the table
write_lines(l, stride, states) ==
  LinesLoop(l, 0, stride, states, SortedKeys(DOMAIN states))

----------------------------------------------------------------------------
(* DMXVideoEncoder. *)

\* variant: next_pts = duration instead of next_pts += duration
write_universe_Assign(enc, duration) == [enc EXCEPT !.next_pts = duration]

\* write_universe on an open encoder: the frame goes out with pts next_pts.
\* duration is a std::uint64_t; the durations of the runs are non-negative
\* and their sums stay far below 2^64, so the addition never wraps.
write_universe(enc, duration) ==
  [enc EXCEPT !.next_pts = enc.next_pts + duration]

\* fbuf->linesize[0]: libav rounds the width of a row up (here to a
\* multiple of 32)
FrameLineSize == 544

\* init_frame: the frame buffer, universes rows of linesize bytes
init_frame(universes) == [b \in 1..(universes * FrameLineSize) |-> 0]

\* the picture the encoder takes from the buffer: height rows of frame_width
\* bytes, linesize bytes apart
Picture(l, stride, height) ==
  [k \in 1..height |->
     SubSeq(l, (k - 1) * stride + 1, (k - 1) * stride + frame_width)]

FrameOut(enc, states, duration) ==
  [op |-> "frame",
   lines |-> Picture(write_lines(init_frame(num_universe), FrameLineSize,
                                 states),
                     FrameLineSize, num_universe),
   pts |-> enc.next_pts, duration |-> duration]

\* close(): flush and trailer on the first call, nothing afterwards
close(enc) == [enc EXCEPT !.closed = TRUE]

\* variant: every call of close() flushes
CloseOut_Always(enc) == <<[op |-> "flush", pts |-> enc.next_pts]>>

CloseOut(enc) ==
  IF enc.closed THEN <<>> ELSE <<[op |-> "flush", pts |-> enc.next_pts]>>

----------------------------------------------------------------------------
(* prog: the conversion loop. *)

\* variant: emplace semantics, an existing entry is kept
Assign_KeepOld(states, universe, data) ==
  [u \in DOMAIN states \cup {universe} |->
     IF u \in DOMAIN states THEN states[u] ELSE data]

\* variant: the table is cleared before the entry is stored
Assign_Alone(states, universe, data) == [u \in {universe} |-> data]

\* variant: the channels the new row leaves at 0 keep their old values
Assign_Merge(states, universe, data) ==
  [u \in DOMAIN states \cup {universe} |->
     IF u # universe THEN states[u]
     ELSE IF u \in DOMAIN states
          THEN [c \in 1..NumChannels |->
                  IF data[c] # 0 THEN data[c] ELSE states[u][c]]
          ELSE data]

\* universe_states[d_frame.universe] = d_frame.data
Assign(states, universe, data) ==
  [u \in DOMAIN states \cup {universe} |->
     IF u = universe THEN data ELSE states[u]]

\* read_frame(show, d_frame) || (d_frame.duration_ms == -1)
LoopCondition(good, f) == good \/ (f.duration_ms = -1)

\* variant: off by one
TooMany_OffByOne(states, n) == Cardinality(DOMAIN states) > n + 1

\* universe_states.size() > num_universe
TooMany(states, n) == Cardinality(DOMAIN states) > n

\* variant: zero waits are committed like any other
NoCommit_Never(f) == FALSE

\* !d_frame.duration_ms
NoCommit(f) == f.duration_ms = 0

\* if (d_frame.duration_ms == -1) d_frame.duration_ms = last_frame_time
FinalDuration(f, last) ==
  IF f.duration_ms = -1 THEN [f EXCEPT !.duration_ms = last] ELSE f

\* variant: the completeness check is missing
Undefined_Never(states, n) == FALSE

\* universe_states.size() != num_universe
Undefined(states, n) == Cardinality(DOMAIN states) # n

\* the loop condition, after read_frame has returned
LoopCond ==
  /\ pc = "cond"
  /\ pc' = IF LoopCondition(~failbit, d_frame) THEN "body" ELSE "after"
  /\ UNCHANGED unitvars
  /\ UNCHANGED <<env, num_universe, last_frame_time, show, eofbit, failbit,
                 d_frame, readdata, universe_states, encoder, sink, err,
                 exit_code, stderr_msg, records, calls, applied>>

\* throw "too many universes in showfile"
Body_TooMany ==
  /\ pc = "body"
  /\ universe_states' =
       Assign(universe_states, d_frame.universe, d_frame.data)
  /\ TooMany(universe_states', num_universe)
  /\ applied' = Append(applied, d_frame)
  /\ Throw("TooManyUniverses")
  /\ UNCHANGED unitvars
  /\ UNCHANGED <<env, num_universe, last_frame_time, show, eofbit, failbit,
                 d_frame, readdata, encoder, sink, exit_code, stderr_msg,
                 records, calls>>

\* if (!d_frame.duration_ms) continue
Body_Skip ==
  /\ pc = "body"
  /\ universe_states' =
       Assign(universe_states, d_frame.universe, d_frame.data)
  /\ ~TooMany(universe_states', num_universe)
  /\ NoCommit(d_frame)
  /\ applied' = Append(applied, d_frame)
  /\ pc' = "loop"
  /\ UNCHANGED unitvars
  /\ UNCHANGED <<env, num_universe, last_frame_time, show, eofbit, failbit,
                 d_frame, readdata, encoder, sink, err, exit_code,
                 stderr_msg, records, calls>>

\* throw "universe state(s) undefined at encode"
Body_Undefined ==
  /\ pc = "body"
  /\ universe_states' =
       Assign(universe_states, d_frame.universe, d_frame.data)
  /\ ~TooMany(universe_states', num_universe)
  /\ ~NoCommit(d_frame)
  /\ d_frame' = FinalDuration(d_frame, last_frame_time)
  /\ Undefined(universe_states', num_universe)
  /\ applied' = Append(applied, d_frame)
  /\ Throw("IncompleteUniverseSet")
  /\ UNCHANGED unitvars
  /\ UNCHANGED <<env, num_universe, last_frame_time, show, eofbit, failbit,
                 readdata, encoder, sink, exit_code, stderr_msg, records,
                 calls>>

\* encoder.write_universe(universe_states, d_frame.duration_ms)
Body_Write ==
  /\ pc = "body"
  /\ universe_states' =
       Assign(universe_states, d_frame.universe, d_frame.data)
  /\ ~TooMany(universe_states', num_universe)
  /\ ~NoCommit(d_frame)
  /\ d_frame' = FinalDuration(d_frame, last_frame_time)
  /\ ~Undefined(universe_states', num_universe)
  /\ applied' = Append(applied, d_frame)
  /\ IF encoder.closed
     THEN /\ Throw("Closed")
          /\ UNCHANGED <<encoder, sink>>
     ELSE /\ sink' = Append(sink, FrameOut(encoder, universe_states',
                                           d_frame'.duration_ms))
          /\ encoder' = write_universe(encoder, d_frame'.duration_ms)
          /\ pc' = "loop"
          /\ err' = err
  /\ UNCHANGED unitvars
  /\ UNCHANGED <<env, num_universe, last_frame_time, show, eofbit, failbit,
                 readdata, exit_code, stderr_msg, records, calls>>

\* after the loop: if (!show.eof()) throw; encoder.close()
Finish ==
  /\ pc = "after"
  /\ IF ~eofbit
     THEN /\ Throw("ReadError")
          /\ UNCHANGED <<encoder, sink>>
     ELSE /\ sink' = sink \o CloseOut(encoder)
          /\ encoder' = close(encoder)
          /\ pc' = "return"
          /\ err' = err
  /\ UNCHANGED unitvars
  /\ UNCHANGED <<env, num_universe, last_frame_time, show, eofbit, failbit,
                 d_frame, readdata, universe_states, exit_code, stderr_msg,
                 records, calls, applied>>

\* return 0: the locals are destroyed, ~DMXVideoEncoder calls close()
ProgReturn ==
  /\ pc = "return"
  /\ sink' = sink \o CloseOut(encoder)
  /\ encoder' = close(encoder)
  /\ exit_code' = 0
  /\ pc' = "exited"
  /\ UNCHANGED unitvars
  /\ UNCHANGED <<env, num_universe, last_frame_time, show, eofbit, failbit,
                 d_frame, readdata, universe_states, err, stderr_msg,
                 records, calls, applied>>

\* an exception leaves prog: ~DMXVideoEncoder calls close(), main's catch
\* block writes the message and returns 1
Unwind ==
  /\ pc = "unwind"
  /\ sink' = sink \o CloseOut(encoder)
  /\ encoder' = close(encoder)
  /\ stderr_msg' = Report(err)
  /\ exit_code' = 1
  /\ pc' = "exited"
  /\ UNCHANGED unitvars
  /\ UNCHANGED <<env, num_universe, last_frame_time, show, eofbit, failbit,
                 d_frame, readdata, universe_states, err, records, calls,
                 applied>>

Next ==
  \/ CallReadFrame
  \/ RF_Eof \/ RF_Skip \/ RF_BadNumber \/ RF_NoData \/ RF_Duration
  \/ RF_Data \/ RF_BadChans
  \/ LoopCond
  \/ Body_TooMany \/ Body_Skip \/ Body_Undefined \/ Body_Write
  \/ Finish \/ ProgReturn \/ Unwind

Spec == Init /\ [][Next]_vars

\* the conversion of a faulty showfile
InitErr ==
  /\ env = "err"
  /\ num_universe \in 1..MaxUniverses
  /\ last_frame_time = 1
  /\ InitCommon
  /\ pc = "loop"
  /\ NoChans
  /\ NoLines

SpecErr == InitErr /\ [][Next]_vars

\* the conversion of a short showfile, run to its end: the process is never
\* suspended for good, whenever it can take a step it takes one (a single
\* thread, reading a regular file)
InitTerm ==
  /\ env = "term"
  /\ num_universe \in 1..MaxUniverses
  /\ last_frame_time = 1
  /\ InitCommon
  /\ pc = "loop"
  /\ NoChans
  /\ NoLines

SpecTerm == InitTerm /\ [][Next]_vars /\ WF_vars(Next)

----------------------------------------------------------------------------
(* The reader alone: read_frame is called on a stream until the stream     *)
(* fails or the call throws.                                               *)

NextCall ==
  /\ pc = "cond"
  /\ pc' = IF ~failbit THEN "loop" ELSE "exited"
  /\ UNCHANGED unitvars
  /\ UNCHANGED <<env, num_universe, last_frame_time, show, eofbit, failbit,
                 d_frame, readdata, universe_states, encoder, sink, err,
                 exit_code, stderr_msg, records, calls, applied>>

NextRec ==
  \/ CallReadFrame
  \/ RF_Eof \/ RF_Skip \/ RF_BadNumber \/ RF_NoData \/ RF_Duration
  \/ RF_Data \/ RF_BadChans
  \/ NextCall

SpecRec == InitRec /\ [][NextRec]_vars

\* the reader alone on streams with blank lines and header lines
InitSkip ==
  /\ env = "skip"
  /\ num_universe = 1
  /\ last_frame_time = 1
  /\ InitCommon
  /\ pc = "loop"
  /\ NoChans
  /\ NoLines

SpecSkip == InitSkip /\ [][NextRec]_vars

----------------------------------------------------------------------------
(* ParseChans alone: it is called once, on any string and any array.  The *)
(* loop is taken one round at a time.                                      *)

InitChans ==
  /\ env = "chans"
  /\ num_universe = 1
  /\ last_frame_time = 1
  /\ InitCommon
  /\ pc = "ParseChans"
  /\ chans_s \in ChanTexts
  /\ chans_d0 \in ChanArrays
  /\ chans_d = chans_d0
  /\ chans_i = 0
  /\ chans_c = 0
  /\ chans_err = "none"
  /\ NoLines

\* d.fill(0); std::size_t c{}; std::size_t i{}
CallParseChans ==
  /\ pc = "ParseChans"
  /\ chans_d' = fill(chans_d, 0)
  /\ chans_i' = 0
  /\ chans_c' = 0
  /\ pc' = "for"
  /\ UNCHANGED <<chans_s, chans_d0, chans_err, sts, linesize, fbuf0, fbuf>>
  /\ UNCHANGED progvars

\* one round of the loop
ChansRound ==
  /\ pc = "for"
  /\ chans_i < Len(chans_s)
  /\ LET r == ParseRound(chans_s, chans_i, chans_c, chans_d)
     IN  /\ chans_d' = r.d
         /\ chans_i' = r.i
         /\ chans_c' = r.c
         /\ chans_err' = r.err
         /\ pc' = IF r.stop THEN "parsed" ELSE "for"
  /\ UNCHANGED <<chans_s, chans_d0, sts, linesize, fbuf0, fbuf>>
  /\ UNCHANGED progvars

\* i < s.size() fails
ChansDone ==
  /\ pc = "for"
  /\ ~(chans_i < Len(chans_s))
  /\ pc' = "parsed"
  /\ UNCHANGED unitvars
  /\ UNCHANGED progvars

NextChans == CallParseChans \/ ChansRound \/ ChansDone

SpecChans == InitChans /\ [][NextChans]_vars

----------------------------------------------------------------------------
(* write_lines alone: it is called once, on any table, into a buffer that  *)
(* has room for one row more than the table has entries.                   *)

InitLines ==
  /\ env = "lines"
  /\ num_universe = 1
  /\ last_frame_time = 1
  /\ InitCommon
  /\ pc = "write_lines"
  /\ NoChans
  /\ sts \in Tables
  /\ linesize \in Strides
  /\ \E old \in OldBytes :
       fbuf0 = [b \in 1..((Cardinality(DOMAIN sts) + 1) * linesize) |-> old]
  /\ fbuf = fbuf0

CallWriteLines ==
  /\ pc = "write_lines"
  /\ fbuf' = write_lines(fbuf, linesize, sts)
  /\ pc' = "written"
  /\ UNCHANGED <<chans_s, chans_d0, chans_d, chans_i, chans_c, chans_err,
                 sts, linesize, fbuf0>>
  /\ UNCHANGED progvars

NextLines == CallWriteLines

SpecLines == InitLines /\ [][NextLines]_vars

----------------------------------------------------------------------------
(* Vocabulary of the properties. *)

\* the frames handed to the sink, in order
Frames == SelectSeq(sink, LAMBDA e : e.op = "frame")

\* a finished read_frame call returned an UpdateEvent
IsEvent(call) ==
  call.err = "none" /\ (call.good \/ call.frame.duration_ms = -1)

\* a finished read_frame call signalled EndOfShow
IsEndOfShow(call) ==
  call.err = "none" /\ ~call.good /\ call.frame.duration_ms # -1

\* the UpdateEvents returned so far, in order
Events == LET ev == SelectSeq(calls, IsEvent)
          IN  [i \in 1..Len(ev) |-> ev[i].frame]

Front(s) == SubSeq(s, 1, Len(s) - 1)

\* number of events with a non-zero (positive or sentinel) wait
CommitCount(evs) == Cardinality({i \in 1..Len(evs) : evs[i].duration_ms # 0})

\* position of the k-th event with a non-zero wait
KthCommit(evs, k) ==
  CHOOSE i \in 1..Len(evs) :
    /\ evs[i].duration_ms # 0
    /\ CommitCount(SubSeq(evs, 1, i)) = k

\* the universes updated by the first j events
Seen(evs, j) == {evs[i].universe : i \in 1..j}

\* the channel row of the most recent of the first j events for universe u
LatestRow(evs, j, u) ==
  LET last == CHOOSE i \in 1..j :
                /\ evs[i].universe = u
                /\ \A i2 \in (i + 1)..j : evs[i2].universe # u
  IN  evs[last].data

\* a packed row read back: the universe number and the channel row
RowId(line) == line[1] + 256 * line[2]
RowData(line) == SubSeq(line, 3, Len(line))

LastApplied == applied[Len(applied)]

TableSize == Cardinality(DOMAIN universe_states)

----------------------------------------------------------------------------
\* C1: a frame is handed to the sink only when the table holds exactly
\* num_universe ids, so every frame has num_universe rows, one per universe;
\* an event with a non-zero or sentinel wait that leaves the table with
\* fewer ids fails with IncompleteUniverseSet and emits no frame.
C1_CommitOnlyWhenComplete ==
  /\ \A k \in 1..Len(Frames) :
       /\ Len(Frames[k].lines) = num_universe
       /\ Cardinality({RowId(Frames[k].lines[r]) : r \in 1..num_universe})
            = num_universe
  /\ (Len(applied) > 0 /\ LastApplied.duration_ms # 0
        /\ TableSize < num_universe)
       => /\ err = "IncompleteUniverseSet"
          /\ Len(Frames) = CommitCount(Front(applied))
  /\ err = "IncompleteUniverseSet"
       => /\ LastApplied.duration_ms # 0
          /\ TableSize < num_universe

C1_Witness ==
  /\ err = "IncompleteUniverseSet"
  /\ LastApplied.duration_ms = -1
  /\ num_universe = 2
  /\ TableSize = 1
  /\ Len(Frames) = 0

\* C2: while no error has occurred there is one frame per event with a
\* non-zero wait, in stream order, and the k-th frame holds, for every
\* universe seen up to the k-th such event, the row of the most recent event
\* for that universe.
C2_FramesAreSnapshots ==
  (err = "none" /\ pc \notin {"cond", "body"}) =>
    /\ applied = Events
    /\ Len(Frames) = CommitCount(Events)
    /\ \A k \in 1..Len(Frames) :
         LET j == KthCommit(Events, k)
             F == Frames[k].lines
         IN  /\ {RowId(F[r]) : r \in 1..Len(F)} = Seen(Events, j)
             /\ Len(F) = Cardinality(Seen(Events, j))
             /\ \A r \in 1..Len(F) :
                  RowData(F[r]) = LatestRow(Events, j, RowId(F[r]))

C2_Witness ==
  /\ err = "none"
  /\ pc = "exited"
  /\ Len(Frames) = 1
  /\ Len(Events) = 2
  /\ Events[1].duration_ms = 0
  /\ Events[2].universe = Events[1].universe
  /\ Events[2].data # Events[1].data

\* C3 as stated: the number of distinct universe ids in the table never
\* exceeds num_universe.
C3_NeverExceeds == TableSize <= num_universe

\* C3 as amended: the table holds more than num_universe ids only in the
\* failure raised by the event that brought the extra id; that event is
\* stored first, fails with TooManyUniverses whatever its wait, and no frame
\* is emitted for it.
C3_ExceedsOnlyInFailure ==
  /\ TableSize <= num_universe + 1
  /\ (TableSize > num_universe) <=> (err = "TooManyUniverses")
  /\ err = "TooManyUniverses"
       => /\ pc \in {"unwind", "exited"}
          /\ LastApplied.universe \in DOMAIN universe_states
          /\ Len(Frames) = CommitCount(Front(applied))

C3_Witness ==
  /\ err = "TooManyUniverses"
  /\ LastApplied.duration_ms = 0
  /\ TableSize = num_universe + 1

\* C4: an event with wait 0 is stored in the table and never produces a
\* frame, whether or not the table is complete, and an incomplete table is
\* no error for it.
C4_ZeroWaitNoFrame ==
  /\ Len(Frames) <= CommitCount(applied)
  /\ (Len(applied) > 0 /\ LastApplied.duration_ms = 0) =>
       /\ LastApplied.universe \in DOMAIN universe_states
       /\ universe_states[LastApplied.universe] = LastApplied.data
       /\ Len(Frames) = CommitCount(Front(applied))
       /\ err # "IncompleteUniverseSet"

C4_Witness ==
  /\ Len(applied) = 2
  /\ applied[1].duration_ms # 0
  /\ LastApplied.duration_ms = 0
  /\ TableSize = num_universe
  /\ Len(Frames) = 1
  /\ pc = "exited" /\ exit_code = 0

C4_WitnessIncomplete ==
  /\ Len(applied) > 0
  /\ LastApplied.duration_ms = 0
  /\ TableSize < num_universe
  /\ pc = "loop"

\* C5 as stated: every duration handed to the sink is at least 1 ms.
C5_DurationAtLeastOne ==
  \A k \in 1..Len(Frames) : Frames[k].duration >= 1

----------------------------------------------------------------------------
(* The showfile format, read off the text of a line. *)

AllDigits(s) == Len(s) > 0 /\ \A i \in 1..Len(s) : IsDigit(s[i])

Digits(s) == [i \in 1..Len(s) |-> DigitVal[s[i]]]

NumberOf(s) == DecValue(Digits(s))

\* an unsigned 32-bit decimal integer
ValidUint(s) == AllDigits(s) /\ FitsUint32(Digits(s))

TrimText(line) == View(line, trim(line))

\* length of the text before the first whitespace character
RECURSIVE TokenLen(_, _)
TokenLen(s, i) ==
  IF i > Len(s) \/ IsSpace(s[i]) THEN 0 ELSE 1 + TokenLen(s, i + 1)

LeadingToken(line) ==
  LET t == TrimText(line) IN SubSeq(t, 1, TokenLen(t, 1))

\* the text after the first run of whitespace of the trimmed line
Remainder(line) ==
  LET t == TrimText(line)
      n == TokenLen(t, 1)
  IN  SubSeq(t, n + 1 + SpaceRunFwd(t, n + 1), Len(t))

Positions(s) == [p \in 1..Len(s) |-> p]

\* the pieces of s between commas
SplitCommas(s) ==
  LET cp == <<0>> \o SelectSeq(Positions(s), LAMBDA p : s[p] = ",")
                  \o <<Len(s) + 1>>
  IN  [k \in 1..(Len(cp) - 1) |-> SubSeq(s, cp[k] + 1, cp[k + 1] - 1)]

\* the values of a channel list; one trailing comma is dropped
Groups(s) ==
  LET g == SplitCommas(s)
  IN  IF Len(g) > 1 /\ Len(g[Len(g)]) = 0 THEN Front(g) ELSE g

ValidList(s) ==
  LET g == Groups(s)
  IN  /\ Len(g) <= NumChannels
      /\ \A i \in 1..Len(g) :
           AllDigits(g[i]) /\ Len(g[i]) <= 3 /\ NumberOf(g[i]) <= Uint8Max

ExpectedRow(s) ==
  LET g == Groups(s)
  IN  [i \in 1..NumChannels |-> IF i <= Len(g) THEN NumberOf(g[i]) ELSE 0]

\* "<uint> <channel-list>", nothing before or after it
DataLine(line) ==
  /\ line = TrimText(line)
  /\ ValidUint(LeadingToken(line))
  /\ Len(Remainder(line)) > 0
  /\ \A i \in (Len(LeadingToken(line)) + 1)
              ..(Len(line) - Len(Remainder(line))) : line[i] = " "
  /\ ValidList(Remainder(line))

\* "<uint>" alone
DurationLine(line) == ValidUint(line)

\* the lines extracted so far are universe-data/duration pairs
PairStream ==
  \A j \in 1..Len(show) :
    IF j % 2 = 1 THEN DataLine(show[j]) ELSE DurationLine(show[j])

\* the lines extracted in call c
LinesOfCall(c) == {j \in 1..Len(records) : records[j].call = c}

\* the last universe-data line extracted in call c (0 if none)
LastData(c) ==
  LET D == {j \in LinesOfCall(c) : records[j].kind = "UniverseData"}
  IN  IF D = {} THEN 0 ELSE CHOOSE j \in D : \A k \in D : k <= j

----------------------------------------------------------------------------
\* C6: on a stream of universe-data/duration pairs the i-th read_frame call
\* returns the i-th pair (universe id, decoded channels, the duration as a
\* non-negative wait), the call after the last pair signals EndOfShow, and
\* a universe-data line alone never ends a call.
C6_PairsInOrder ==
  PairStream =>
    /\ \A i \in 1..(Len(show) \div 2) :
         /\ Len(calls) >= i
         /\ calls[i].good /\ calls[i].err = "none"
         /\ calls[i].frame.universe = NumberOf(LeadingToken(show[2 * i - 1]))
         /\ calls[i].frame.data = ExpectedRow(Remainder(show[2 * i - 1]))
         /\ calls[i].frame.duration_ms = NumberOf(show[2 * i])
         /\ calls[i].frame.duration_ms >= 0
    /\ Len(show) % 2 = 0 =>
         /\ Len(calls) <= (Len(show) \div 2) + 1
         /\ Len(calls) = (Len(show) \div 2) + 1
              => IsEndOfShow(calls[Len(calls)])
    /\ \A j \in 1..Len(show) :
         (j % 2 = 1) =>
           /\ records[j].kind = "UniverseData"
           /\ j < Len(show) => records[j + 1].call = records[j].call
           /\ (j = Len(show) /\ Len(calls) >= records[j].call)
                => /\ ~calls[records[j].call].good
                   /\ calls[records[j].call].frame.duration_ms = -1

C6_Witness ==
  /\ PairStream
  /\ Len(show) = 4
  /\ Len(calls) = 3
  /\ IsEvent(calls[1]) /\ IsEvent(calls[2]) /\ IsEndOfShow(calls[3])
  /\ calls[1].frame.universe # calls[2].frame.universe
  /\ calls[2].frame.duration_ms > 0

\* C7: a duration line that is the first record of a read_frame call other
\* than blank and header lines makes the call fail with
\* NoDataBeforeDuration; no event is returned.
C7_NoDataBeforeDuration ==
  \A j \in 1..Len(records) :
    LET c == records[j].call
    IN  (/\ DurationLine(show[j])
         /\ \A i \in LinesOfCall(c) :
              i < j => records[i].kind \in {"Blank", "Header"})
        => /\ records[j].kind = "NoDataBeforeDuration"
           /\ Len(calls) = c
           /\ calls[c].err = "NoDataBeforeDuration"
           /\ ~IsEvent(calls[c])
           /\ err = "NoDataBeforeDuration"
           /\ j = Len(show)

\* two duration lines in a row
C7_Witness ==
  /\ Len(records) >= 3
  /\ records[Len(records)].kind = "NoDataBeforeDuration"
  /\ records[Len(records) - 1].kind = "Duration"
  /\ pc = "exited" /\ exit_code = 1

\* the very first line of the stream
C7_WitnessFirstLine ==
  /\ Len(records) = 1
  /\ records[1].kind = "NoDataBeforeDuration"

\* C8: a call during which the stream ends returns the pending update with
\* wait -1 if a universe-data line was read in it, and signals EndOfShow
\* otherwise; an event with wait -1 is the last event, and the call after it
\* signals EndOfShow.
C8_SentinelAtEnd ==
  \A c \in 1..Len(calls) :
    /\ (calls[c].err = "none" /\ ~calls[c].good) =>
         IF LastData(c) # 0
         THEN /\ IsEvent(calls[c])
              /\ calls[c].frame.duration_ms = -1
              /\ calls[c].frame.universe = records[LastData(c)].val
              /\ DataLine(show[LastData(c)]) =>
                   calls[c].frame.data =
                     ExpectedRow(Remainder(show[LastData(c)]))
         ELSE IsEndOfShow(calls[c])
    /\ calls[c].frame.duration_ms = -1 =>
         /\ calls[c].err = "none" /\ ~calls[c].good
         /\ Len(calls) <= c + 1
         /\ Len(calls) = c + 1 => IsEndOfShow(calls[c + 1])

\* the last line has no newline
C8_Witness ==
  /\ Len(calls) = 3
  /\ IsEvent(calls[1])
  /\ calls[2].frame.duration_ms = -1
  /\ IsEndOfShow(calls[3])
  /\ ~records[Len(records)].eol
  /\ pc = "exited" /\ exit_code = 0

\* the last line has a newline
C8_WitnessNewline ==
  /\ Len(calls) = 2
  /\ calls[1].frame.duration_ms = -1
  /\ IsEndOfShow(calls[2])
  /\ records[Len(records)].eol

\* C9 as stated: a line that is neither blank nor the header and whose
\* leading token is not an unsigned 32-bit decimal integer is rejected with
\* MalformedInteger.
C9_BadTokenRejected ==
  \A j \in 1..Len(records) :
    (~Skipped(show[j]) /\ ~ValidUint(LeadingToken(show[j])))
      => records[j].kind = "MalformedInteger"

\* C10 as stated: integer, whitespace run and non-empty remainder make a
\* universe-data line with that id and that remainder; only a line that
\* holds the integer alone is a duration line.
C10_Classification ==
  \A j \in 1..Len(records) :
    /\ (ValidUint(LeadingToken(show[j])) /\ Len(Remainder(show[j])) > 0)
         => /\ records[j].kind \notin {"Duration", "NoDataBeforeDuration",
                                       "MalformedInteger"}
            /\ records[j].val = NumberOf(LeadingToken(show[j]))
            /\ records[j].rest = Remainder(show[j])
    /\ records[j].kind \in {"Duration", "NoDataBeforeDuration"}
         => ValidUint(TrimText(show[j]))

----------------------------------------------------------------------------
(* Channel lists, read off the text (positions are 1-based).               *)

\* no value can start at p, and the character at p is not the one comma
\* that may follow a value
Fault(s, p) ==
  /\ ~IsDigit(s[p])
  /\ ~(s[p] = "," /\ p > 1 /\ IsDigit(s[p - 1]))

\* the first such position (Len(s) + 1 if there is none)
FirstFault(s) ==
  LET F == SelectSeq(Positions(s), LAMBDA p : Fault(s, p))
  IN  IF Len(F) = 0 THEN Len(s) + 1 ELSE F[1]

\* the positions around the runs of digits
Breaks(s) ==
  <<0>> \o SelectSeq(Positions(s), LAMBDA p : ~IsDigit(s[p]))
        \o <<Len(s) + 1>>

\* every third position of every run of digits, from the start of the run
GroupStartSet(s) ==
  LET B == Breaks(s)
  IN  UNION { {B[j] + 1 + 3 * m : m \in 0..((B[j + 1] - B[j] - 2) \div 3)} :
              j \in 1..(Len(B) - 1) }

\* where the digit groups before the first fault start, in order
GroupStarts(s) ==
  LET S  == GroupStartSet(s)
      ff == FirstFault(s)
  IN  SelectSeq(Positions(s), LAMBDA p : p < ff /\ p \in S)

\* a group is at most 3 digits long and ends with its run
GroupLen(s, p) ==
  IF p + 1 <= Len(s) /\ IsDigit(s[p + 1])
  THEN IF p + 2 <= Len(s) /\ IsDigit(s[p + 2]) THEN 3 ELSE 2
  ELSE 1

GroupValue(s, p) == NumberOf(SubSeq(s, p, p + GroupLen(s, p) - 1))

\* the decimal values of the digit groups before the first fault
GroupValues(s) ==
  LET G == GroupStarts(s) IN [k \in 1..Len(G) |-> GroupValue(s, G[k])]

\* the row that holds the first n of the values vs, and 0 elsewhere
RowOf(vs, n) ==
  [i \in 1..NumChannels |-> IF i <= n /\ i <= Len(vs) THEN vs[i] ELSE 0]

\* the groups that overflow
TooLarge(vs) == {k \in 1..Len(vs) : vs[k] > Uint8Max}

\* a run of 4 or more digits
LongRun(s) ==
  LET B == Breaks(s) IN \E j \in 1..(Len(B) - 1) : B[j + 1] - B[j] >= 5

\* a list without fault: runs of digits with single commas between them,
\* and possibly one after the last
NoFault(s) == FirstFault(s) > Len(s)

Min(a, b) == IF a < b THEN a ELSE b

\* the first group that cannot be stored, because it overflows or because
\* it is the 513th (0 if there is none)
FirstBadGroup(vs) ==
  LET bad == {k \in 1..Len(vs) : vs[k] > Uint8Max \/ k > NumChannels}
  IN  IF bad = {} THEN 0 ELSE CHOOSE k \in bad : \A j \in bad : k <= j

\* ParseChans has returned or thrown
Parsed == pc = "parsed"

----------------------------------------------------------------------------
\* C11: a list of at most 512 values of 1 to 3 digits, each at most 255,
\* separated by single commas, with or without one trailing comma, decodes
\* without error to the row that holds the i-th value at index i and 0
\* elsewhere, whatever the array held before; the empty string gives the
\* all-zero row.
C11_ValidListDecoded ==
  Parsed =>
    /\ ValidList(chans_s)
         => (chans_err = "none" /\ chans_d = ExpectedRow(chans_s))
    /\ chans_s = <<>> => (chans_err = "none" /\ chans_d = ZeroData)

\* 512 values and a trailing comma, into an array that held other values
C11_Witness ==
  /\ Parsed
  /\ ValidList(chans_s)
  /\ Len(Groups(chans_s)) = NumChannels
  /\ chans_s[Len(chans_s)] = ","
  /\ chans_d0 # ZeroData
  /\ chans_d[NumChannels] = 9

\* three values, the rest of the row is cleared
C11_WitnessShort ==
  /\ Parsed
  /\ chans_s = <<"1", "0", ",", "2", "0", ",", "3", "0">>
  /\ chans_d0 # ZeroData
  /\ chans_d = [i \in 1..NumChannels |->
                  IF i = 1 THEN 10 ELSE IF i = 2 THEN 20
                  ELSE IF i = 3 THEN 30 ELSE 0]

C11_WitnessEmpty ==
  /\ Parsed
  /\ chans_s = <<>>
  /\ chans_d0 # ZeroData
  /\ chans_d = ZeroData

\* C12: at most 3 digits go into one value.  In a list without fault, a run
\* of 4 or more digits is cut from the left into groups of 3 digits (the
\* last group has what is left), no comma is needed between the groups, a
\* group above 255 gives ChannelValueOverflow and otherwise the groups are
\* the values of the row, in order.
C12_LongRunsSplit ==
  (Parsed /\ LongRun(chans_s) /\ NoFault(chans_s)) =>
    LET vs == GroupValues(chans_s)
        n  == Min(Len(vs), NumChannels)
    IN  /\ chans_err # "MalformedChannelList"
        /\ ((\A k \in 1..n : vs[k] <= Uint8Max) /\ Len(vs) <= NumChannels)
             => (chans_err = "none" /\ chans_d = RowOf(vs, Len(vs)))
        /\ (\E k \in 1..n : vs[k] > Uint8Max)
             => chans_err = "ChannelValueOverflow"

\* "1234" is 123 then 4
C12_Witness ==
  /\ Parsed
  /\ chans_s = <<"1", "2", "3", "4">>
  /\ chans_err = "none"
  /\ chans_d[1] = 123 /\ chans_d[2] = 4 /\ chans_d[3] = 0

\* "1234567" is 123, then 456, which is too large
C12_WitnessOverflow ==
  /\ Parsed
  /\ chans_s = <<"1", "2", "3", "4", "5", "6", "7">>
  /\ chans_err = "ChannelValueOverflow"
  /\ chans_d[1] = 123 /\ chans_d[2] = 0

\* C13: when the scan comes to a place where a value must start and finds
\* no digit there (a comma at the very start, a second comma in a row, a
\* character that is neither digit nor comma), ParseChans fails with
\* MalformedChannelList, the values before that place being stored; it fails
\* so in no other case.
C13_NoDigitIsMalformed ==
  Parsed =>
    LET vs == GroupValues(chans_s)
    IN  /\ (~NoFault(chans_s) /\ FirstBadGroup(vs) = 0)
             => /\ chans_err = "MalformedChannelList"
                /\ chans_d = RowOf(vs, Len(vs))
        /\ chans_err = "MalformedChannelList" => ~NoFault(chans_s)
        /\ (Len(chans_s) > 0 /\ chans_s[1] = ",")
             => chans_err = "MalformedChannelList"

\* "1,,2"
C13_Witness ==
  /\ Parsed
  /\ chans_s = <<"1", ",", ",", "2">>
  /\ chans_err = "MalformedChannelList"
  /\ chans_d[1] = 1 /\ chans_d[2] = 0

\* a comma at the very start
C13_WitnessLeadingComma ==
  /\ Parsed
  /\ chans_s = <<",", "2">>
  /\ chans_err = "MalformedChannelList"

\* a character that is neither digit nor comma, after a value
C13_WitnessOtherChar ==
  /\ Parsed
  /\ chans_s = <<"1", " ", "2">>
  /\ chans_err = "MalformedChannelList"

\* C14: a digit group of value 256 to 999 that the scan comes to makes
\* ParseChans fail with ChannelValueOverflow, and nothing else does; the
\* array only ever holds values from 0 to 255, and every value stored is the
\* decimal value of its digit group.
C14_OverflowRejected ==
  /\ \A i \in 1..NumChannels : chans_d[i] \in 0..Uint8Max
  /\ Parsed =>
       LET vs == GroupValues(chans_s)
           k  == FirstBadGroup(vs)
       IN  /\ (k # 0 /\ vs[k] > Uint8Max)
                => chans_err = "ChannelValueOverflow"
           /\ chans_err = "ChannelValueOverflow"
                => (k # 0 /\ vs[k] \in 256..999)
           /\ chans_err = "none" => TooLarge(vs) = {}
           /\ chans_d = RowOf(vs, IF k = 0 THEN Len(vs) ELSE k - 1)

\* "256"
C14_Witness ==
  /\ Parsed
  /\ chans_s = <<"2", "5", "6">>
  /\ chans_err = "ChannelValueOverflow"
  /\ chans_d = ZeroData

\* "255256": 255 is stored, 256 is not
C14_WitnessSecond ==
  /\ Parsed
  /\ chans_s = <<"2", "5", "5", "2", "5", "6">>
  /\ chans_err = "ChannelValueOverflow"
  /\ chans_d[1] = 255 /\ chans_d[2] = 0

\* "999"
C14_WitnessLargest ==
  /\ Parsed
  /\ chans_s = <<"9", "9", "9">>
  /\ chans_err = "ChannelValueOverflow"

\* C15: ParseChans fails with TooManyChannels exactly when the scan comes
\* to a 513th value (512 values are stored and a further group of at most
\* 255 follows); a list of exactly 512 values, with or without a comma after
\* the last, is decoded; the counter of stored values never passes 512, so
\* only the indices 0..511 of the array are written.
C15_TooManyChannels ==
  /\ chans_c \in 0..NumChannels
  /\ DOMAIN chans_d = 1..NumChannels
  /\ Parsed =>
       LET vs == GroupValues(chans_s)
           k  == FirstBadGroup(vs)
       IN  /\ chans_err = "TooManyChannels"
                <=> (k = NumChannels + 1 /\ vs[k] <= Uint8Max)
           /\ chans_err = "TooManyChannels"
                => (chans_c = NumChannels /\ chans_d = RowOf(vs, NumChannels))
           /\ (NoFault(chans_s) /\ Len(vs) = NumChannels /\ TooLarge(vs) = {})
                => (chans_err = "none" /\ chans_c = NumChannels
                    /\ chans_d = RowOf(vs, NumChannels))

\* 513 values
C15_Witness ==
  /\ Parsed
  /\ chans_err = "TooManyChannels"
  /\ Len(GroupValues(chans_s)) = NumChannels + 1
  /\ chans_c = NumChannels
  /\ chans_d[NumChannels] = 9

\* 512 values
C15_WitnessFull ==
  /\ Parsed
  /\ chans_err = "none"
  /\ chans_c = NumChannels
  /\ chans_s[Len(chans_s)] # ","
  /\ chans_d[NumChannels] = 9

\* 512 values and a comma
C15_WitnessFullComma ==
  /\ Parsed
  /\ chans_err = "none"
  /\ chans_c = NumChannels
  /\ chans_s[Len(chans_s)] = ","

\* the 513th group is too large: the overflow is reported
C15_WitnessOverflowFirst ==
  /\ Parsed
  /\ chans_err = "ChannelValueOverflow"
  /\ chans_c = NumChannels

----------------------------------------------------------------------------
(* The packed buffer, read back (offsets are 0-based, as in the source).   *)

Byte(l, at) == l[at + 1]

\* the number of entries of the table T with a key below u
Rank(T, u) == Cardinality({w \in DOMAIN T : w < u})

\* write_lines has returned
Written == pc = "written"

\* the 16-bit little-endian number at offset at
UnpackId(l, at) == Byte(l, at) + 256 * Byte(l, at + 1)

\* the 512 channel bytes of the row at offset at
UnpackData(l, at) == [i \in 1..NumChannels |-> Byte(l, at + 1 + i)]

\* the rows of the buffer, in order: n rows, stride bytes apart
Unpack(l, stride, n) ==
  [k \in 1..n |-> [id   |-> UnpackId(l, (k - 1) * stride),
                   data |-> UnpackData(l, (k - 1) * stride)]]

\* the entries of the table T in ascending order of the keys
Entries(T) ==
  [k \in 1..Cardinality(DOMAIN T) |->
     LET u == CHOOSE w \in DOMAIN T : Rank(T, w) = k - 1
     IN  [id |-> u, data |-> T[u]]]

----------------------------------------------------------------------------
\* C16: write_lines writes one row per entry of the table, in ascending
\* order of the universe ids, row k at byte k * stride: byte 0 and 1 of the
\* row hold the universe id modulo 65536, low byte first, bytes 2..513 the
\* channels 0..511; as many rows are written as the table has entries (the
\* bytes after them keep their content).
C16_RowsInOrder ==
  Written =>
    LET n == Cardinality(DOMAIN sts)
    IN  /\ \A u \in DOMAIN sts :
             LET at == Rank(sts, u) * linesize
             IN  /\ Byte(fbuf, at) = (u % 65536) % 256
                 /\ Byte(fbuf, at + 1) = (u % 65536) \div 256
                 /\ \A i \in 0..(NumChannels - 1) :
                      Byte(fbuf, at + 2 + i) = sts[u][i + 1]
        /\ Len(fbuf) = Len(fbuf0)
        /\ \A at \in (n * linesize)..(Len(fbuf) - 1) :
             Byte(fbuf, at) = Byte(fbuf0, at)

\* ids {0, 2}, stride 514: 1028 bytes are written, bytes 514 and 515 are
\* 0x02, 0x00
C16_Witness ==
  /\ Written
  /\ DOMAIN sts = {0, 2}
  /\ linesize = 514
  /\ sts[0] # sts[2]
  /\ Byte(fbuf, 0) = 0 /\ Byte(fbuf, 1) = 0
  /\ Byte(fbuf, 514) = 2 /\ Byte(fbuf, 515) = 0
  /\ Byte(fbuf0, 514) = 170 /\ Byte(fbuf, 1028) = 170

\* id 258 is 0x02, 0x01; the rows lie 516 bytes apart
C16_WitnessPadded ==
  /\ Written
  /\ DOMAIN sts = {2, 258}
  /\ linesize = 516
  /\ Byte(fbuf, 516) = 2 /\ Byte(fbuf, 517) = 1

\* C17 as stated: reading the rows back (16-bit little-endian id, 512
\* channel bytes) gives the entries of the table, in order, for every table.
C17_RoundTrip ==
  Written =>
    Unpack(fbuf, linesize, Cardinality(DOMAIN sts)) = Entries(sts)

\* C17 as amended: reading the rows back gives, in the order of the table,
\* the channel rows of the entries and their universe ids modulo 65536; it
\* gives the entries themselves when every universe id is below 65536.
C17_RoundTripModulo ==
  Written =>
    LET n    == Cardinality(DOMAIN sts)
        back == Unpack(fbuf, linesize, n)
    IN  /\ \A k \in 1..n :
             /\ back[k].id = Entries(sts)[k].id % 65536
             /\ back[k].data = Entries(sts)[k].data
        /\ (\A u \in DOMAIN sts : u < 65536) => back = Entries(sts)

\* two universes below 65536 with different rows
C17_Witness ==
  /\ Written
  /\ DOMAIN sts = {2, 258}
  /\ sts[2] # sts[258]
  /\ linesize = 516
  /\ Unpack(fbuf, linesize, 2) =
       <<[id |-> 2, data |-> sts[2]], [id |-> 258, data |-> sts[258]]>>

\* universes 2 and 65538 come back as two rows with id 2
C17_WitnessTruncated ==
  /\ Written
  /\ DOMAIN sts = {2, 65538}
  /\ UnpackId(fbuf, 0) = 2
  /\ UnpackId(fbuf, linesize) = 2

----------------------------------------------------------------------------
(* Failures. *)

\* raised while a line is read
ReadErrors ==
  {"MalformedInteger", "MalformedChannelList", "ChannelValueOverflow",
   "TooManyChannels", "NoDataBeforeDuration"}

\* raised while an event is applied to the table
TableErrors == {"TooManyUniverses", "IncompleteUniverseSet"}

\* C18: every failure ends the conversion.  The line that raised a failure
\* of the reader is the last line read and its call is the last call; the
\* event that raised a failure of the table is the last event returned and
\* applied; the frames handed to the sink are those of the events before the
\* failure; the process then exits with status 1, the message of the
\* failure being written to the error stream.
C18_ErrorsAreFatal ==
  /\ err \in ReadErrors \cup TableErrors \cup {"none"}
  /\ pc = "exited" => (exit_code = 0 <=> err = "none")
  /\ err # "none" =>
       /\ pc \in {"unwind", "exited"}
       /\ pc = "unwind" => ENABLED Unwind
       /\ exit_code # 0
       /\ pc = "exited" =>
            (exit_code = 1 /\ stderr_msg = Report(err))
       /\ Len(records) = Len(show)
       /\ \A j \in 1..Len(records) : records[j].call <= Len(calls)
       /\ applied = Events
       /\ err \in ReadErrors =>
            /\ records[Len(records)].kind = err
            /\ records[Len(records)].call = Len(calls)
            /\ calls[Len(calls)].err = err
            /\ Len(Frames) = CommitCount(applied)
       /\ err \in TableErrors =>
            /\ IsEvent(calls[Len(calls)])
            /\ LastApplied = calls[Len(calls)].frame
            /\ Len(Frames) = CommitCount(Front(applied))

\* a frame has been written, then a line is not a number: the process has
\* exited with status 1
C18_Witness ==
  /\ pc = "exited"
  /\ err = "MalformedInteger"
  /\ exit_code = 1
  /\ stderr_msg = Report("MalformedInteger")
  /\ Len(Frames) = 1
  /\ Len(show) = 3

C18_WitnessMalformedChannelList ==
  pc = "exited" /\ err = "MalformedChannelList" /\ exit_code = 1

C18_WitnessChannelValueOverflow ==
  pc = "exited" /\ err = "ChannelValueOverflow" /\ exit_code = 1

C18_WitnessTooManyChannels ==
  pc = "exited" /\ err = "TooManyChannels" /\ exit_code = 1

C18_WitnessNoDataBeforeDuration ==
  pc = "exited" /\ err = "NoDataBeforeDuration" /\ exit_code = 1

C18_WitnessTooManyUniverses ==
  pc = "exited" /\ err = "TooManyUniverses" /\ exit_code = 1

C18_WitnessIncompleteUniverseSet ==
  pc = "exited" /\ err = "IncompleteUniverseSet" /\ exit_code = 1

\* the text part occurs in the text msg
Contains(msg, part) ==
  \E k \in 0..(Len(msg) - Len(part)) : SubSeq(msg, k + 1, k + Len(part)) = part

DigitChar == <<"0", "1", "2", "3", "4", "5", "6", "7", "8", "9">>

\* the decimal digits of n
RECURSIVE Decimal(_)
Decimal(n) ==
  IF n < 10 THEN <<DigitChar[n + 1]>>
  ELSE Decimal(n \div 10) \o <<DigitChar[(n % 10) + 1]>>

\* C19 as stated: the report of a failure of the reader holds the raw
\* content of the line that raised it, and the report of a failure of the
\* table holds the universe id of the event that raised it.
C19_ErrorsCarryContext ==
  pc = "exited" =>
    /\ err \in ReadErrors => Contains(stderr_msg, show[Len(show)])
    /\ err \in TableErrors
         => Contains(stderr_msg, Decimal(LastApplied.universe))

----------------------------------------------------------------------------
(* The end of the output. *)

\* the positions of the sink at which the output was flushed and closed
Flushes == {k \in 1..Len(sink) : sink[k].op = "flush"}

\* the sum of the durations of the first n frames
RECURSIVE TotalDuration(_)
TotalDuration(n) ==
  IF n = 0 THEN 0 ELSE TotalDuration(n - 1) + Frames[n].duration

\* C20: the output is flushed and closed exactly once in every run, when it
\* ends in return 0 and when it ends in a failure: not while the loop still
\* reads and commits, once by the time the process has exited (the second
\* close() of the success path, made by the destructor, adds nothing), and
\* nothing is handed to the sink after it.  write_universe is never called
\* on the closed encoder.
C20_ClosedOnce ==
  /\ Cardinality(Flushes) <= 1
  /\ \A k \in Flushes :
       /\ k = Len(sink)
       /\ sink[k].pts = TotalDuration(Len(Frames))
  /\ encoder.closed <=> Flushes # {}
  /\ pc \in {"loop", "read", "cond", "body", "after", "unwind"}
       => Flushes = {}
  /\ pc \in {"return", "exited"} => Cardinality(Flushes) = 1
  /\ err # "Closed"

\* return 0: close() was called by prog and again by the destructor
C20_Witness ==
  /\ pc = "exited"
  /\ exit_code = 0
  /\ Len(Frames) = 2
  /\ Len(sink) = 3
  /\ sink[3].op = "flush"
  /\ sink[3].pts = 6

\* a failure after a frame: close() was called by the destructor
C20_WitnessFailure ==
  /\ pc = "exited"
  /\ exit_code = 1
  /\ Len(Frames) = 1
  /\ Len(sink) = 2
  /\ sink[2].op = "flush"

----------------------------------------------------------------------------
(* Universe-data lines that a later one of the same call supersedes. *)

IsData(j) == records[j].kind = "UniverseData"

\* a later universe-data line was extracted in the same read_frame call
Superseded(j) ==
  /\ IsData(j)
  /\ \E k \in (j + 1)..Len(records) :
       IsData(k) /\ records[k].call = records[j].call

\* the universe-data lines that were the last of a call whose event the
\* driver has applied
Effective ==
  {j \in 1..Len(records) :
     IsData(j) /\ ~Superseded(j) /\ records[j].call <= Len(applied)}

\* the universe id and the channel row written on a universe-data line
UniverseOf(line) == NumberOf(LeadingToken(line))
RowOfLine(line) == ExpectedRow(Remainder(line))

\* row is the channel row written on the line: its values, then zeros
HasRowOf(row, line) ==
  LET g == Groups(Remainder(line))
  IN  /\ Len(row) = NumChannels
      /\ \A i \in 1..Len(g) : row[i] = NumberOf(g[i])
      /\ SubSeq(row, Len(g) + 1, NumChannels)
           = SubSeq(ZeroData, Len(g) + 1, NumChannels)

\* the last effective line for universe u
LastEffective(u) ==
  CHOOSE j \in Effective :
    /\ UniverseOf(show[j]) = u
    /\ \A k \in Effective : UniverseOf(show[k]) = u => k <= j

\* the calls that extracted two or more universe-data lines
MultiData(c) == \E j \in LinesOfCall(c) : Superseded(j)

\* C21: when a read_frame call extracts several universe-data lines before
\* the duration line (or the end of the stream), the event it returns holds
\* the universe id and exactly the channel row of the last of them, and the
\* table is made of the last lines of the applied calls alone: a universe
\* named only by superseded lines is not in the table, and no row comes from
\* a superseded line.
C21_LastDataLineWins ==
  /\ \A c \in 1..Len(calls) :
       (IsEvent(calls[c]) /\ MultiData(c)) =>
         /\ calls[c].frame.universe = UniverseOf(show[LastData(c)])
         /\ HasRowOf(calls[c].frame.data, show[LastData(c)])
  /\ DOMAIN universe_states = {UniverseOf(show[j]) : j \in Effective}
  /\ \A u \in DOMAIN universe_states :
       HasRowOf(universe_states[u], show[LastEffective(u)])

\* "0 1,2" and "1 3" before "5": the frame has the row of universe 1 alone,
\* and channel 2 of it is 0
C21_Witness ==
  /\ num_universe = 1
  /\ Len(show) >= 3
  /\ Superseded(1)
  /\ UniverseOf(show[1]) = 0 /\ RowOfLine(show[1])[2] = 2
  /\ IsData(2) /\ UniverseOf(show[2]) = 1
  /\ records[3].kind = "Duration"
  /\ Len(Frames) = 1
  /\ DOMAIN universe_states = {1}
  /\ universe_states[1][2] = 0
  /\ RowId(Frames[1].lines[1]) = 1

\* the superseded line names the universe of an earlier row: the row stays
C21_WitnessOldRow ==
  /\ Len(applied) = 2
  /\ MultiData(2)
  /\ \E j \in LinesOfCall(2) :
       /\ Superseded(j)
       /\ UniverseOf(show[j]) = applied[1].universe
       /\ UniverseOf(show[j]) # applied[2].universe
       /\ RowOfLine(show[j]) # applied[1].data
       /\ universe_states[applied[1].universe] = applied[1].data

----------------------------------------------------------------------------
(* Blank lines and header lines. *)

\* what a caller sees of a finished read_frame call
Outcome(call) ==
  IF call.err # "none" THEN [kind |-> "Error", err |-> call.err]
  ELSE IF IsEvent(call)
       THEN [kind |-> "UpdateEvent", universe |-> call.frame.universe,
             data |-> call.frame.data, duration_ms |-> call.frame.duration_ms]
       ELSE [kind |-> "EndOfShow"]

Outcomes == [c \in 1..Len(calls) |-> Outcome(calls[c])]

\* the line holds whitespace only
BlankLine(line) == \A i \in 1..Len(line) : IsSpace(line[i])

\* the line holds the header token and whitespace around it
HeaderLine(line) ==
  \E a \in 0..Len(line) :
    /\ a + Len(show_header) <= Len(line)
    /\ SubSeq(line, a + 1, a + Len(show_header)) = show_header
    /\ \A i \in 1..a : IsSpace(line[i])
    /\ \A i \in (a + Len(show_header) + 1)..Len(line) : IsSpace(line[i])

\* the stream without its blank lines and header lines
Kept(stream) ==
  SelectSeq(stream, LAMBDA line : ~BlankLine(line) /\ ~HeaderLine(line))

\* read_frame called again and again on a stream in which no line is
\* skipped, until the stream fails or a call throws: the outcomes of the
\* calls.  k: the next line; f, rd: the frame and readdata of the call that
\* is under way.
RECURSIVE ReadPlain(_, _, _, _)
ReadPlain(stream, k, f, rd) ==
  IF k > Len(stream)
  THEN IF rd
       THEN <<Outcome([good |-> FALSE, err |-> "none",
                       frame |-> [f EXCEPT !.duration_ms = -1]])>>
       ELSE <<Outcome([good |-> FALSE, err |-> "none", frame |-> f])>>
  ELSE LET line == stream[k]
       IN  IF BadNumber(line)
           THEN <<[kind |-> "Error", err |-> "MalformedInteger"]>>
           ELSE IF IsDurationLine(line)
           THEN IF ~rd
                THEN <<[kind |-> "Error", err |-> "NoDataBeforeDuration"]>>
                ELSE <<Outcome([good |-> TRUE, err |-> "none",
                                frame |-> [f EXCEPT !.duration_ms =
                                                      Rslt(line).val]])>>
                     \o ReadPlain(stream, k + 1, clear(f), FALSE)
           ELSE LET r == ParseChans(Segs(line).second, f.data)
                IN  IF r.err # "none"
                    THEN <<[kind |-> "Error", err |-> r.err]>>
                    ELSE ReadPlain(stream, k + 1,
                                   [f EXCEPT !.universe = Rslt(line).val,
                                             !.data = r.data], TRUE)

\* the reader has stopped: the stream has failed or a call has thrown
ReaderDone == pc \in {"exited", "unwind"}

Skips == {j \in 1..Len(show) : BlankLine(show[j]) \/ HeaderLine(show[j])}

\* C22: the outcomes of the successive read_frame calls on a stream
\* (UpdateEvents, EndOfShow, errors) are those of the same calls on the
\* stream without its blank lines and header lines; so two streams that
\* differ only in blank lines and header lines, wherever they stand, give
\* the same outcomes.
C22_SkipsChangeNothing ==
  ReaderDone =>
    Outcomes = ReadPlain(Kept(show), 1, clear(d_frame), FALSE)

\* a blank line between a universe-data line and its duration line, and a
\* header with whitespace around it after them
C22_Witness ==
  /\ ReaderDone
  /\ Len(show) = 4
  /\ ~(1 \in Skips) /\ BlankLine(show[2]) /\ ~(3 \in Skips)
  /\ HeaderLine(show[4]) /\ show[4] # show_header
  /\ Len(calls) = 2
  /\ Outcomes[1].kind = "UpdateEvent"
  /\ Outcomes[1].duration_ms = 5
  /\ Outcomes[2].kind = "EndOfShow"

\* skipped lines before an error and before the sentinel
C22_WitnessError ==
  /\ ReaderDone
  /\ Len(show) = 3
  /\ Skips = {1, 2}
  /\ Outcomes = <<[kind |-> "Error", err |-> "MalformedInteger"]>>

C22_WitnessSentinel ==
  /\ ReaderDone
  /\ Len(show) = 3
  /\ Skips = {2, 3}
  /\ Len(Outcomes) = 1
  /\ Outcomes[1].kind = "UpdateEvent"
  /\ Outcomes[1].duration_ms = -1

----------------------------------------------------------------------------
(* Rows are replaced as a whole. *)

\* the number of values of the channel list of a universe-data line
ValueCount(line) == Len(Groups(Remainder(line)))

\* the effective lines among the first n applied calls
EffectiveUpTo(n) == {j \in Effective : records[j].call <= n}

\* the last of them for universe u
LastEffectiveUpTo(u, n) ==
  CHOOSE j \in EffectiveUpTo(n) :
    /\ UniverseOf(show[j]) = u
    /\ \A k \in EffectiveUpTo(n) : UniverseOf(show[k]) = u => k <= j

\* channels k..511 (positions k+1..512) of a row are 0
ZeroFrom(row, k) ==
  SubSeq(row, k + 1, NumChannels) = SubSeq(ZeroData, k + 1, NumChannels)

\* C23: after an update of universe u by a channel list of k values the
\* channels k..511 of u's row are 0, in the table and in every frame
\* committed while that update is the latest for u, whatever the row of u
\* or the event decoded before held in those channels.
C23_ReplacedWholesale ==
  /\ \A u \in DOMAIN universe_states :
       ZeroFrom(universe_states[u],
                ValueCount(show[LastEffectiveUpTo(u, Len(applied))]))
  /\ \A f \in 1..Len(Frames) :
       LET n == KthCommit(applied, f)
           F == Frames[f].lines
       IN  \A r \in 1..Len(F) :
             ZeroFrom(RowData(F[r]),
                      ValueCount(show[LastEffectiveUpTo(RowId(F[r]), n)]))

\* universe 0 had a value in channel 1, the next update of universe 0 has a
\* single value: channel 1 is 0 in the table and in the frame
C23_Witness ==
  /\ Len(applied) = 2
  /\ applied[1].universe = 0 /\ applied[1].data[2] # 0
  /\ applied[2].universe = 0
  /\ ValueCount(show[LastEffectiveUpTo(0, 2)]) = 1
  /\ universe_states[0][2] = 0
  /\ Len(Frames) = 1
  /\ RowData(Frames[1].lines[1])[2] = 0

\* the event decoded before, of another universe, had a value in channel 1
C23_WitnessOtherUniverse ==
  /\ num_universe = 2
  /\ Len(applied) = 2
  /\ applied[1].universe = 0 /\ applied[1].data[2] # 0
  /\ applied[2].universe = 1
  /\ ValueCount(show[LastEffectiveUpTo(1, 2)]) = 1
  /\ universe_states[1][2] = 0
  /\ universe_states[0][2] # 0
  /\ Len(Frames) = 1
  /\ RowData(Frames[1].lines[2])[2] = 0

----------------------------------------------------------------------------
(* The effect of one step on the table. *)

\* the step applies an event to the table
Applies == Len(applied') = Len(applied) + 1

\* C24: a step that applies an UpdateEvent for universe u sets the entry of
\* u to the channels of the event, leaves every other row as it was and
\* makes the set of ids the old set plus u; no other step changes the
\* table, so the table never shrinks and no universe is ever removed.
C24_UpdateTouchesOneRow ==
  [][ /\ DOMAIN universe_states \subseteq DOMAIN universe_states'
      /\ IF Applies
         THEN LET e == applied'[Len(applied')]
              IN  /\ DOMAIN universe_states' =
                       DOMAIN universe_states \cup {e.universe}
                  /\ universe_states'[e.universe] = e.data
                  /\ \A u \in DOMAIN universe_states \ {e.universe} :
                       universe_states'[u] = universe_states[u]
         ELSE universe_states' = universe_states ]_vars

\* a second universe has been stored next to the first, whose row is as the
\* first event left it
C24_Witness ==
  /\ Len(applied) = 2
  /\ applied[1].universe # applied[2].universe
  /\ DOMAIN universe_states = {applied[1].universe, applied[2].universe}
  /\ universe_states[applied[1].universe] = applied[1].data
  /\ universe_states[applied[2].universe] = applied[2].data
  /\ applied[1].data # applied[2].data

\* the entry of a universe that was already stored has been overwritten
C24_WitnessOverwrite ==
  /\ Len(applied) = 2
  /\ applied[1].universe = applied[2].universe
  /\ applied[1].data # applied[2].data
  /\ DOMAIN universe_states = {applied[2].universe}
  /\ universe_states[applied[2].universe] = applied[2].data

----------------------------------------------------------------------------
(* Presentation timestamps. *)

\* the wait of the event that made the k-th frame: the duration read from
\* the stream, or --last-duration for the event the end of the stream made
WaitOfFrame(k) ==
  LET e == applied[KthCommit(applied, k)]
  IN  IF e.duration_ms = -1 THEN last_frame_time ELSE e.duration_ms

\* the sum of the waits of the first n frames
RECURSIVE WaitSum(_)
WaitSum(n) == IF n = 0 THEN 0 ELSE WaitSum(n - 1) + WaitOfFrame(n)

\* C25: the k-th frame goes to the encoder with the sum of the durations of
\* the frames before it as its timestamp (0 for the first); from one frame
\* to the next the timestamps never decrease and grow when the duration
\* between them is at least 1; the timestamp of the flush, and next_pts at
\* any time, is the sum of the durations of all frames.
C25_TimestampsAreSums ==
  /\ \A k \in 1..Len(Frames) : Frames[k].pts = WaitSum(k - 1)
  /\ \A k \in 1..(Len(Frames) - 1) :
       /\ Frames[k].pts <= Frames[k + 1].pts
       /\ WaitOfFrame(k) >= 1 => Frames[k].pts < Frames[k + 1].pts
  /\ encoder.next_pts = WaitSum(Len(Frames))
  /\ \A f \in Flushes : sink[f].pts = WaitSum(Len(Frames))

\* two frames of 5 ms: timestamps 0 and 5, the flush at 10
C25_Witness ==
  /\ pc = "exited"
  /\ Len(Frames) = 2
  /\ Frames[1].pts = 0
  /\ Frames[2].pts = 5
  /\ Flushes = {3}
  /\ sink[3].pts = 10

\* the last frame is made by the end of the stream and lasts --last-duration
C25_WitnessLastDuration ==
  /\ pc = "exited"
  /\ last_frame_time = 1
  /\ Len(Frames) = 2
  /\ applied[KthCommit(applied, 2)].duration_ms = -1
  /\ Frames[2].pts = 5
  /\ sink[3].op = "flush" /\ sink[3].pts = 6

----------------------------------------------------------------------------
(* Termination. *)

\* every finished read_frame call has extracted a line, or has found the
\* stream at its end
CallsConsume ==
  \A c \in 1..Len(calls) : LinesOfCall(c) # {} \/ ~calls[c].good

\* the event made by the end of the stream is the last one applied, and the
\* loop body is not entered after it
SentinelIsLast ==
  \A k \in 1..Len(applied) :
    applied[k].duration_ms = -1 => (k = Len(applied) /\ pc # "body")

\* the loop was left by an exception, or by EndOfShow and then close()
EndsProperly ==
  pc = "exited" =>
    \/ err # "none" /\ exit_code = 1
    \/ /\ err = "none" /\ exit_code = 0
       /\ Len(calls) > 0 /\ IsEndOfShow(calls[Len(calls)])
       /\ Len(sink) > 0 /\ sink[Len(sink)].op = "flush"

\* C26: the conversion of a finite stream terminates: every read_frame call
\* extracts a line or finds the end of the stream, the process exits, by an
\* error or by EndOfShow followed by close(), and once the event made by
\* the end of the stream has been applied the loop body is not entered
\* again.
C26_Terminates ==
  /\ <>(pc = "exited")
  /\ [](CallsConsume /\ SentinelIsLast /\ EndsProperly)

\* a conversion that ended with the event of the end of the stream, one more
\* call that signalled EndOfShow, and close()
C26_Witness ==
  /\ pc = "exited"
  /\ exit_code = 0
  /\ Len(applied) = 2
  /\ applied[2].duration_ms = -1
  /\ Len(calls) = 3
  /\ LinesOfCall(3) = {}
  /\ IsEndOfShow(calls[3])
  /\ Len(Frames) = 2
  /\ sink[3].op = "flush"

\* a conversion that ended with an error after the limit of lines was read
C26_WitnessError ==
  /\ pc = "exited"
  /\ exit_code = 1
  /\ Len(show) = MaxTermLines

====
